---- MODULE Spec2Model ----
(***************************************************************************)
(* Model of snap (dcepelik/snap): the retention cascade of config.go and   *)
(* the backup run, the prune and the whole run of main.go.                 *)
(*                                                                         *)
(* A snapshot is identified by its creation time (snap.created); the model *)
(* writes a snapshot as that time, a positive integer.  Nil is the empty   *)
(* ring slot (a nil *snap).                                                *)
(***************************************************************************)
EXTENDS Integers, Sequences, FiniteSets, TLC

MaxTime == 4        \* creation times are 1..MaxTime
MaxTiers == 2       \* a cascade has 0..MaxTiers buckets
MaxCap == 2         \* a bucket's Size is 0..MaxCap
MaxChunks == 3      \* btrfs send writes 0..MaxChunks pieces of its stream
PipeCap == 1        \* pieces an operating-system pipe buffers
MaxPasses == 2      \* classification passes on one cascade, a reset between them
MaxRunTime == 3     \* in a whole run of the program creation times are 1..MaxRunTime
MaxRunTiers == 2    \* in a whole run of the program a profile has 0..MaxRunTiers buckets
MaxPlanTiers == 1   \* in a planning run a profile has 0..MaxPlanTiers buckets
Nil == 0            \* nil *snap
ZeroTime == 0       \* the zero time.Time of "var prevCreated time.Time"
NoParent == 0       \* parentPath == "": no -p argument

Times == 1..MaxTime
Intervals == {0, 2, 3}
Sizes == 0..MaxCap

VARIABLES
  c,          \* the cascade (a.cascade) and the locals of one cascade.insert call
  input,      \* the snapshots handed to cascade.insert (a set: they are sorted first)
  dryRun,     \* a.opts.dryRun
  srcDir,     \* the entries of the source profile's Storage directory
  dstDir,     \* the entries of the backup profile's Storage directory
  bpc,        \* where app.backup stands
  src, dst,   \* backup: the two scans (sets of snapshots)
  need, have, \* backup: the maps need and have (their key sets)
  needS,      \* backup: need, sorted
  unwanted,   \* backup: the key set of unwanted
  haveS,      \* backup: the bases, have sorted and then every snapshot sent
  idx,        \* backup: the index of the loop over needS (1-based)
  cur,        \* backupSingle: the snapshot s
  sendArgs,   \* backupSingle: [refs: the -c arguments, parent: the -p argument]
  emit,       \* the goroutine of btrfs send:    "idle", "running", "ok", "failed"
  consume,    \* the goroutine of btrfs receive: "idle", "running", "ok", "failed"
  calls,      \* history: the send commands built so far, [s, refs, parent]
  p,          \* one transfer in detail: the two commands, their pipes, the errgroup
  r,          \* app.run and app.prune: the options, the profile's buckets, the loop of prune
  passes,     \* history: what each finished pass on the one cascade kept and evicted
  scan        \* the order in which the scans and the map iterations deliver, and the plan

cascadeVars == <<c, input>>
backupVars == <<dryRun, srcDir, dstDir, bpc, src, dst, need, have, needS, unwanted,
                haveS, idx, cur, sendArgs, emit, consume, calls>>
runVars == <<r, passes, scan>>
vars == <<cascadeVars, backupVars, p, runVars>>

----------------------------------------------------------------------------
(* Sequences helpers *)

Range(s) == {s[j] : j \in DOMAIN s}

Min(S) == CHOOSE x \in S : \A y \in S : x <= y
Max(S) == CHOOSE x \in S : \A y \in S : y <= x

RECURSIVE SortAsc(_)
\* sort.Slice(in, created.Before): ascending by creation time
SortAsc(S) == IF S = {} THEN <<>> ELSE <<Min(S)>> \o SortAsc(S \ {Min(S)})

\* all sequences over S of length 0..n
SeqsUpTo(S, n) == UNION {[1..k -> S] : k \in 0..n}

----------------------------------------------------------------------------
(* config.go: bucket, cascade *)

\* addBucket: make([]*snap, 0, size) is a backing array of size slots, all nil,
\* and a slice of length 0 over it.
addBucket(interval, size) ==
  [interval |-> interval,
   cap      |-> size,
   snaps    |-> [j \in 0..(size - 1) |-> Nil],
   len      |-> 0]

TierDefs == [interval : Intervals, size : Sizes]

\* app.run: one addBucket per configured bucket, on a cascade from newCascade
newCascade(defs) == [k \in DOMAIN defs |-> addBucket(defs[k].interval, defs[k].size)]

\* the locals of insert at its entry, after sort.Slice
insertEntry(buckets, in) ==
  [buckets     |-> buckets,
   in          |-> SortAsc(in),
   overflow    |-> <<>>,
   shared      |-> FALSE,     \* in and overflow are slices of one backing array
   out         |-> <<>>,
   b           |-> 1,         \* the bucket of the outer loop (1-based)
   i           |-> 0,         \* the index of the inner loop
   prevCreated |-> ZeroTime,
   insertAt    |-> 0,
   pc          |-> "loop"]

\* Rejects without the interval test (a faulty variant)
Rejects_noInterval(bk, i, d) == bk.cap = 0

\* Rejects that tests the first snapshot against the zero time (a faulty variant)
Rejects_first(bk, i, d) == d < bk.interval \/ bk.cap = 0

\* Rejects that asks for more than the interval (a faulty variant)
Rejects_strict(bk, i, d) == (i > 0 /\ d <= bk.interval) \/ bk.cap = 0

\* Rejects without the capacity test (a faulty variant)
Rejects_noCap(bk, i, d) == i > 0 /\ d < bk.interval

\* the condition of line 176
Rejects(bk, i, d) == (i > 0 /\ d < bk.interval) \/ bk.cap = 0

\* reject that hands the snapshot to the next bucket (a faulty variant)
reject_forward(st, s) == [st EXCEPT !.overflow = Append(@, s), !.i = @ + 1]

\* lines 177-178: the rejected snapshot goes to out, and the loop continues
reject(st, s) == [st EXCEPT !.out = Append(@, s), !.i = @ + 1]

\* Occupant that takes the slot written last (a faulty variant)
Occupant_newest(bk, insertAt) == bk.snaps[(insertAt + bk.cap - 1) % bk.cap]

\* line 181: the occupant of the slot about to be written
Occupant(bk, insertAt) == bk.snaps[insertAt]

\* nextInsertAt without the wrap-around (a faulty variant)
nextInsertAt_nowrap(insertAt, size) == insertAt + 1

\* lines 185-186
nextInsertAt(insertAt, size) == (insertAt + 1) % size

\* pushOverflow that puts the occupant in front (a faulty variant)
pushOverflow_front(overflow, t) == IF t # Nil THEN <<t>> \o overflow ELSE overflow

\* pushOverflow that drops the occupant (a faulty variant)
pushOverflow_drop(overflow, t) == overflow

\* lines 181-183: append(overflow, t) when the slot is occupied
pushOverflow(overflow, t) == IF t # Nil THEN Append(overflow, t) ELSE overflow

\* One iteration of the inner loop, lines 174-188, on snapshot in[i].
insertIter(st) ==
  LET bk == st.buckets[st.b]
      s  == st.in[st.i + 1]
      d  == s - st.prevCreated
  IN IF Rejects(bk, st.i, d)
       THEN reject(st, s)
     ELSE IF st.insertAt + 1 > bk.cap      \* b.snaps[0:insertAt+1] out of range
       THEN [st EXCEPT !.pc = "panic"]
     ELSE
       LET t   == Occupant(bk, st.insertAt)
           ov  == pushOverflow(st.overflow, t)
           \* append writes into the array that in is a slice of
           in2 == IF st.shared /\ Len(ov) > Len(st.overflow) /\ Len(ov) <= Len(st.in)
                    THEN [st.in EXCEPT ![Len(ov)] = t]
                    ELSE st.in
       IN [st EXCEPT !.buckets[st.b].snaps[st.insertAt] = s,
                     !.buckets[st.b].len = st.insertAt + 1,
                     !.overflow = ov,
                     !.in = in2,
                     !.insertAt = nextInsertAt(st.insertAt, bk.cap),
                     !.prevCreated = s,
                     !.i = @ + 1]

\* lines 189-190 and the next turn of the outer loop
nextBucket(st) ==
  [st EXCEPT !.in = st.overflow,
             !.overflow = <<>>,
             !.shared = TRUE,
             !.b = @ + 1,
             !.i = 0,
             !.prevCreated = ZeroTime,
             !.insertAt = 0]

\* lines 192-193
insertReturn(st) == [st EXCEPT !.out = st.out \o st.in, !.pc = "done"]

\* the next step of a running insert
insertStep(st) ==
  IF st.b > Len(st.buckets) THEN insertReturn(st)
  ELSE IF st.i < Len(st.in) THEN insertIter(st)
  ELSE nextBucket(st)

RECURSIVE insertRun(_)
\* cascade.insert run to its return (or its panic)
insertRun(st) == IF st.pc = "loop" THEN insertRun(insertStep(st)) ELSE st

\* cascade.insert as a function: the cascade after the call, and out
insert(buckets, in) == insertRun(insertEntry(buckets, in))

----------------------------------------------------------------------------
(* Specification Spec: one classification pass on a fresh cascade, a step  *)
(* per loop iteration.                                                     *)

Idle(buckets) == [insertEntry(buckets, {}) EXCEPT !.pc = "idle"]

\* no transfer is looked at in detail
NoPipe ==
  [gS |-> "none", gR |-> "none", sendProc |-> "none", recvProc |-> "none",
   left |-> 0, osOut |-> 0, osIn |-> 0, sendCopier |-> "none", recvCopier |-> "none",
   stdinClosed |-> FALSE, prClosed |-> FALSE, pwClosed |-> FALSE,
   ctxDone |-> FALSE, wait |-> "none"]

\* no backup is running
NoBackup ==
  /\ dryRun = FALSE /\ srcDir = {} /\ dstDir = {} /\ bpc = "none"
  /\ src = {} /\ dst = {} /\ need = {} /\ have = {}
  /\ needS = <<>> /\ unwanted = {} /\ haveS = <<>> /\ idx = 1
  /\ cur = Nil /\ sendArgs = [refs |-> <<>>, parent |-> NoParent]
  /\ emit = "idle" /\ consume = "idle" /\ calls = <<>>

\* no run of the program is followed, no pass is recorded, no order is chosen
NoRun == r = [pc |-> "none"] /\ passes = <<>> /\ scan = [pc |-> "none"]

Init ==
  /\ \E defs \in SeqsUpTo(TierDefs, MaxTiers) : c = Idle(newCascade(defs))
  /\ input \in SUBSET Times
  /\ NoBackup
  /\ p = NoPipe
  /\ NoRun

\* the call of insert: sort.Slice, line 167
InsertCall ==
  /\ c.pc = "idle"
  /\ c' = insertEntry(c.buckets, input)
  /\ UNCHANGED <<input, backupVars, p, runVars>>

\* an inner-loop iteration that rejects in[i]
InsertReject ==
  /\ c.pc = "loop" /\ c.b <= Len(c.buckets) /\ c.i < Len(c.in)
  /\ Rejects(c.buckets[c.b], c.i, c.in[c.i + 1] - c.prevCreated)
  /\ c' = insertIter(c)
  /\ UNCHANGED <<input, backupVars, p, runVars>>

\* an inner-loop iteration that writes in[i] into the ring
InsertAccept ==
  /\ c.pc = "loop" /\ c.b <= Len(c.buckets) /\ c.i < Len(c.in)
  /\ ~Rejects(c.buckets[c.b], c.i, c.in[c.i + 1] - c.prevCreated)
  /\ c' = insertIter(c)
  /\ UNCHANGED <<input, backupVars, p, runVars>>

\* the end of the inner loop
InsertNextBucket ==
  /\ c.pc = "loop" /\ c.b <= Len(c.buckets) /\ c.i >= Len(c.in)
  /\ c' = nextBucket(c)
  /\ UNCHANGED <<input, backupVars, p, runVars>>

\* the end of the outer loop
InsertReturn ==
  /\ c.pc = "loop" /\ c.b > Len(c.buckets)
  /\ c' = insertReturn(c)
  /\ UNCHANGED <<input, backupVars, p, runVars>>

Next == InsertCall \/ InsertReject \/ InsertAccept \/ InsertNextBucket \/ InsertReturn

Spec == Init /\ [][Next]_vars

----------------------------------------------------------------------------
(* What a cascade holds *)

\* the snapshots in the ring of bucket bk
Kept(bk) == {bk.snaps[j] : j \in DOMAIN bk.snaps} \ {Nil}

\* the number of occupied slots of bucket bk
Occupied(bk) == Cardinality({j \in DOMAIN bk.snaps : bk.snaps[j] # Nil})

\* the number of ring slots, over all buckets, that hold x
SlotsOf(st, x) ==
  Cardinality({kj \in UNION {{<<k, j>> : j \in DOMAIN st.buckets[k].snaps} : k \in DOMAIN st.buckets}
                 : st.buckets[kj[1]].snaps[kj[2]] = x})

\* the number of times x is in the sequence s
Count(s, x) == Cardinality({j \in DOMAIN s : s[j] = x})

AllKept(st) == UNION {Kept(st.buckets[k]) : k \in DOMAIN st.buckets}

AllPositive(st) == \A k \in DOMAIN st.buckets : st.buckets[k].cap > 0

\* the inner loop stands before an iteration on in[i] of bucket b
AtIter(st) == st.pc = "loop" /\ st.b <= Len(st.buckets) /\ st.i < Len(st.in)

\* that iteration rejects / accepts
AtReject(st) ==
  AtIter(st) /\ Rejects(st.buckets[st.b], st.i, st.in[st.i + 1] - st.prevCreated)
AtAccept(st) ==
  AtIter(st) /\ ~Rejects(st.buckets[st.b], st.i, st.in[st.i + 1] - st.prevCreated)

----------------------------------------------------------------------------
(* Claims on the cascade, under Spec *)

\* C1: when insert returns on a fresh cascade, every input snapshot is in
\* exactly one ring slot or exactly once in out, never both, never neither,
\* and the rings and out hold input snapshots only.
C1_Partition ==
  c.pc = "done" =>
    /\ \A x \in input : SlotsOf(c, x) + Count(c.out, x) = 1
    /\ AllKept(c) \subseteq input
    /\ Range(c.out) \subseteq input

\* a pass over two buckets has returned with snapshots kept in both and two evicted
C1_Witness ==
  /\ c.pc = "done" /\ Len(c.buckets) = 2
  /\ Kept(c.buckets[1]) # {} /\ Kept(c.buckets[2]) # {}
  /\ Len(c.out) >= 2

\* C2: at every step of a pass, each bucket of positive capacity has at most
\* capacity occupied slots, and the pass never slices a ring beyond its
\* capacity.
C2_Capacity ==
  /\ c.pc # "panic"
  /\ \A k \in DOMAIN c.buckets :
       c.buckets[k].cap > 0 => Occupied(c.buckets[k]) <= c.buckets[k].cap

\* a full ring of two slots has been written again (an occupant was displaced)
C2_Witness ==
  /\ c.pc = "loop" /\ c.b = 1 /\ Len(c.buckets) >= 1 /\ c.buckets[1].cap = 2
  /\ Occupied(c.buckets[1]) = 2 /\ Len(c.overflow) >= 1

\* C3: when insert returns on a fresh cascade whose buckets all have positive
\* capacity, two distinct snapshots kept in one bucket are at least that
\* bucket's interval apart; for every bucket.
C3_Spacing ==
  (c.pc = "done" /\ AllPositive(c)) =>
    \A k \in DOMAIN c.buckets :
      \A x, y \in Kept(c.buckets[k]) :
        x < y => y - x >= c.buckets[k].interval

\* the second bucket keeps two snapshots and has rejected one on its interval
C3_Witness ==
  /\ c.pc = "done" /\ Len(c.buckets) = 2 /\ AllPositive(c)
  /\ c.buckets[2].interval >= 2
  /\ Cardinality(Kept(c.buckets[2])) = 2
  /\ Len(c.out) >= 1

C5_DisplaceOldest ==
  [][ /\ (AtAccept(c) /\ Occupied(c.buckets[c.b]) = c.buckets[c.b].cap) =>
           LET old == Kept(c.buckets[c.b])
               s   == c.in[c.i + 1]
           IN /\ c'.overflow = Append(c.overflow, Min(old))
              /\ Kept(c'.buckets[c.b]) = (old \ {Min(old)}) \cup {s}
      /\ (c.pc = "loop" /\ c.b <= Len(c.buckets) /\ c.i >= Len(c.in)) =>
           c'.in = c.overflow
      /\ (c.pc = "loop" /\ c.b > Len(c.buckets)) =>
           c'.out = c.out \o c.in ]_vars

\* the second bucket, of capacity 2 and full, has displaced an occupant
C5_Witness ==
  /\ c.pc = "loop" /\ c.b = 2 /\ Len(c.buckets) >= 2 /\ c.buckets[2].cap = 2
  /\ Occupied(c.buckets[2]) = 2 /\ Len(c.overflow) >= 1

----------------------------------------------------------------------------
(* main.go: the storage directory, findSnaps *)

\* A directory entry is [name, sub]: sub says that it holds a directory
\* "snapshot".  A name is what s.created.Format(snapshotDateLayout) gives,
\* <<t>>, or that followed by the ".recv.*" of os.MkdirTemp.

\* line 298: s.created.Format(snapshotDateLayout)
Format(t) == <<t>>

\* line 326: the name os.MkdirTemp(dir, name + ".recv.*") makes
recvName(t) == Format(t) \o <<"recv">>

\* line 51: time.Parse(snapshotDateLayout, name) fails on text after the layout
ParseOK(name) == Len(name) = 1
Parse(name) == name[1]

\* findSnaps that reads the time off the front of the name (a faulty variant)
findSnaps_prefix(dir) == {e.name[1] : e \in {f \in dir : f.sub}}

\* findSnaps, lines 39-66: the entries whose name parses and that hold "snapshot"
findSnaps(dir) == {Parse(e.name) : e \in {f \in dir : ParseOK(f.name) /\ f.sub}}

\* the entry of a published snapshot
snapEntry(t) == [name |-> Format(t), sub |-> TRUE]

----------------------------------------------------------------------------
(* main.go: app.backup, app.backupSingle *)

\* cascade.reset, config.go lines 196-203: the slots below len(b.snaps) are
\* set to nil and the slice is cut to length 0
reset(buckets) ==
  [n \in DOMAIN buckets |->
     [buckets[n] EXCEPT !.snaps = [j \in DOMAIN @ |-> IF j < buckets[n].len THEN Nil ELSE @[j]],
                        !.len = 0]]

\* parent that takes the first older base (a faulty variant)
parentOf_first(bases, s) ==
  LET older == {j \in DOMAIN bases : bases[j] < s}
  IN IF older = {} THEN NoParent ELSE bases[Min(older)]

\* lines 338-345: the loop over have leaves in parentPath the last element
\* of have that is older than s
parentOf(bases, s) ==
  LET older == {j \in DOMAIN bases : bases[j] < s}
  IN IF older = {} THEN NoParent ELSE bases[Max(older)]

\* wouldHave that leaves out need (a faulty variant)
wouldHave_dstOnly(dstSnaps, needSeq) == dstSnaps

\* wouldHave that leaves out what the destination holds (a faulty variant)
wouldHave_needOnly(dstSnaps, needSeq) == Range(needSeq)

\* line 270: wouldHave := append(dst, needS...)
wouldHave(dstSnaps, needSeq) == dstSnaps \cup Range(needSeq)

\* the tier lists of the backup profiles
BackupTierDefs == [interval : {0, 2}, size : {MaxCap}]

InitBackup ==
  /\ \E defs \in SeqsUpTo(BackupTierDefs, MaxTiers) : c = Idle(newCascade(defs))
  /\ input = {}
  /\ dryRun \in BOOLEAN
  /\ \E S \in SUBSET Times : srcDir = {snapEntry(t) : t \in S}
  /\ \E D \in SUBSET Times : dstDir = {snapEntry(t) : t \in D}
  /\ bpc = "start"
  /\ src = {} /\ dst = {} /\ need = {} /\ have = {}
  /\ needS = <<>> /\ unwanted = {} /\ haveS = <<>> /\ idx = 1
  /\ cur = Nil /\ sendArgs = [refs |-> <<>>, parent |-> NoParent]
  /\ emit = "idle" /\ consume = "idle" /\ calls = <<>>
  /\ p = NoPipe
  /\ NoRun

\* backup, lines 228-283: the scans, need and have, the simulation on
\* a.cascade and its reset, the bases
BackupPlan ==
  /\ bpc = "start"
  /\ LET srcScan == findSnaps(srcDir)
         dstScan == findSnaps(dstDir)
         needM   == {t \in srcScan : t \notin dstScan}
         haveM   == {t \in srcScan : t \in dstScan}
         sim     == insert(c.buckets, wouldHave(dstScan, SortAsc(needM)))
     IN /\ src' = srcScan
        /\ dst' = dstScan
        /\ need' = needM
        /\ have' = haveM
        /\ needS' = SortAsc(needM)
        /\ input' = wouldHave(dstScan, SortAsc(needM))
        /\ unwanted' = Range(sim.out)
        /\ c' = [sim EXCEPT !.buckets = reset(@)]
        /\ haveS' = SortAsc(haveM)
  /\ idx' = 1
  /\ bpc' = "loop"
  /\ UNCHANGED <<p, runVars, dryRun, srcDir, dstDir, cur, sendArgs, emit, consume, calls>>

\* executes that takes no notice of the dry run (a faulty variant)
executes_always(dry) == TRUE

\* the commands and the removals are carried out when the run is no dry run:
\* backupSingle returns before the two g.Go (lines 361-363), btrfsCmd
\* returns before exec.Command (lines 430-432), prune passes over os.Remove
\* (line 187)
executes(dry) == ~dry

\* lines 285-288: an unwanted snapshot is passed over
BackupSkip ==
  /\ bpc = "loop" /\ idx <= Len(needS)
  /\ needS[idx] \in unwanted
  /\ idx' = idx + 1
  /\ UNCHANGED <<p, runVars, cascadeVars, dryRun, srcDir, dstDir, bpc, src, dst, need, have, needS,
                 unwanted, haveS, cur, sendArgs, emit, consume, calls>>

\* lines 336-350: the send command for s with the bases have
buildSend(s, bases) == [s |-> s, refs |-> bases, parent |-> parentOf(bases, s)]

\* returnErr that goes on with the next snapshot (a faulty variant)
returnErr_continue(i) == [bpc |-> "loop", idx |-> i + 1]

\* lines 289-291: backup returns the error of backupSingle; the loop over
\* needS is left where it stands
returnErr(i) == [bpc |-> "error", idx |-> i]

\* backupSingle when os.MkdirTemp fails, lines 326-331; backup returns the error
BackupSingleMkdirFail ==
  /\ bpc = "loop" /\ idx <= Len(needS)
  /\ needS[idx] \notin unwanted
  /\ cur' = needS[idx]
  /\ bpc' = returnErr(idx).bpc
  /\ idx' = returnErr(idx).idx
  /\ UNCHANGED <<p, runVars, cascadeVars, dryRun, srcDir, dstDir, src, dst, need, have, needS,
                 unwanted, haveS, sendArgs, emit, consume, calls>>

\* backupSingle in a dry run, lines 297-363: the staging directory is made,
\* the commands are printed, the staging directory is removed; then line 292
BackupSingleDry ==
  /\ bpc = "loop" /\ idx <= Len(needS)
  /\ needS[idx] \notin unwanted
  /\ dryRun
  /\ cur' = needS[idx]
  /\ sendArgs' = [refs |-> haveS, parent |-> parentOf(haveS, needS[idx])]
  /\ calls' = Append(calls, buildSend(needS[idx], haveS))
  /\ haveS' = Append(haveS, needS[idx])
  /\ idx' = idx + 1
  /\ UNCHANGED <<p, runVars, cascadeVars, dryRun, srcDir, dstDir, bpc, src, dst, need, have, needS,
                 unwanted, emit, consume>>

\* backupSingle up to the two g.Go, lines 297-372: the staging directory is
\* made and both commands are started
BackupSingleStart ==
  /\ bpc = "loop" /\ idx <= Len(needS)
  /\ needS[idx] \notin unwanted
  /\ executes(dryRun)
  /\ cur' = needS[idx]
  /\ sendArgs' = [refs |-> haveS, parent |-> parentOf(haveS, needS[idx])]
  /\ calls' = Append(calls, buildSend(needS[idx], haveS))
  /\ dstDir' = dstDir \cup {[name |-> recvName(needS[idx]), sub |-> FALSE]}
  /\ emit' = "running" /\ consume' = "running"
  /\ bpc' = "transfer"
  /\ UNCHANGED <<p, runVars, cascadeVars, dryRun, srcDir, src, dst, need, have, needS,
                 unwanted, haveS, idx>>

\* In SpecBackup a running transfer is the two goroutines of lines 365-372,
\* each ending with nil or an error in either order; SpecPipe below follows
\* the commands, the copiers and the pipe of one transfer step by step.

\* btrfs send ends, line 371: with exit status 0 or not
EmitEnd ==
  /\ bpc = "transfer" /\ emit = "running"
  /\ emit' \in {"ok", "failed"}
  /\ UNCHANGED <<p, runVars, cascadeVars, dryRun, srcDir, dstDir, bpc, src, dst, need, have, needS,
                 unwanted, haveS, idx, cur, sendArgs, consume, calls>>

\* btrfs receive ends, line 367.  With exit status 0 the subvolume "snapshot"
\* stands in the staging directory; otherwise a part of it may be left there.
ConsumeEnd ==
  /\ bpc = "transfer" /\ consume = "running"
  /\ \E ok \in BOOLEAN, left \in BOOLEAN :
       /\ consume' = IF ok THEN "ok" ELSE "failed"
       /\ dstDir' = (dstDir \ {[name |-> recvName(cur), sub |-> FALSE]})
                      \cup {[name |-> recvName(cur), sub |-> ok \/ left]}
  /\ UNCHANGED <<p, runVars, cascadeVars, dryRun, srcDir, bpc, src, dst, need, have, needS,
                 unwanted, haveS, idx, cur, sendArgs, emit, calls>>

\* the deferred os.Remove(recvPath), line 328: it removes an empty directory
removeStaging(dir, t) == dir \ {[name |-> recvName(t), sub |-> FALSE]}

\* bothReturned that is content with one goroutine (a faulty variant)
bothReturned_first(e, co) == e \in {"ok", "failed"} \/ co \in {"ok", "failed"}

\* line 373: g.Wait returns when both functions given to g.Go have returned,
\* and each returns when its command has exited (cmd.Run)
bothReturned(e, co) == e \in {"ok", "failed"} /\ co \in {"ok", "failed"}

\* g.Wait returns an error, lines 373-375; backup returns it, line 290
WaitError ==
  /\ bpc = "transfer"
  /\ bothReturned(emit, consume)
  /\ emit = "failed" \/ consume = "failed"
  /\ dstDir' = removeStaging(dstDir, cur)
  /\ bpc' = returnErr(idx).bpc
  /\ idx' = returnErr(idx).idx
  /\ UNCHANGED <<p, runVars, cascadeVars, dryRun, srcDir, src, dst, need, have, needS,
                 unwanted, haveS, cur, sendArgs, emit, consume, calls>>

\* published that leaves the new snapshot alone in the directory (a faulty variant)
published_only(dir, t) == {snapEntry(t)}

\* published without the rename (a faulty variant)
published_notRenamed(dir, t) == dir

\* published with the staging directory left in place (a faulty variant)
published_keepStaging(dir, t) == dir \cup {snapEntry(t)}

\* lines 376-377: os.Remove(snapPath) takes away an empty directory of the
\* final name, os.Rename gives the staging directory the final name
published(dir, t) ==
  (dir \ {[name |-> recvName(t), sub |-> TRUE], [name |-> Format(t), sub |-> FALSE]})
    \cup {snapEntry(t)}

\* g.Wait returns nil and os.Rename succeeds, lines 373-377; then line 292
Publish ==
  /\ bpc = "transfer" /\ bothReturned(emit, consume)
  /\ emit = "ok" /\ consume = "ok"
  /\ dstDir' = published(dstDir, cur)
  /\ haveS' = Append(haveS, cur)
  /\ idx' = idx + 1
  /\ emit' = "idle" /\ consume' = "idle"
  /\ bpc' = "loop"
  /\ UNCHANGED <<p, runVars, cascadeVars, dryRun, srcDir, src, dst, need, have, needS,
                 unwanted, cur, sendArgs, calls>>

\* g.Wait returns nil and os.Rename fails, lines 373-377; backup returns the
\* error, line 290.  The staging directory is not empty and stays.
PublishFail ==
  /\ bpc = "transfer" /\ emit = "ok" /\ consume = "ok"
  /\ bpc' = returnErr(idx).bpc
  /\ idx' = returnErr(idx).idx
  /\ UNCHANGED <<p, runVars, cascadeVars, dryRun, srcDir, dstDir, src, dst, need, have, needS,
                 unwanted, haveS, cur, sendArgs, emit, consume, calls>>

\* line 294: the loop is over
BackupReturn ==
  /\ bpc = "loop" /\ idx > Len(needS)
  /\ bpc' = "ok"
  /\ UNCHANGED <<p, runVars, cascadeVars, dryRun, srcDir, dstDir, src, dst, need, have, needS,
                 unwanted, haveS, idx, cur, sendArgs, emit, consume, calls>>

NextBackup ==
  \/ BackupPlan \/ BackupSkip \/ BackupSingleMkdirFail \/ BackupSingleDry
  \/ BackupSingleStart \/ EmitEnd \/ ConsumeEnd \/ WaitError \/ Publish
  \/ PublishFail \/ BackupReturn

SpecBackup == InitBackup /\ [][NextBackup]_vars

----------------------------------------------------------------------------
(* Claims on the backup run, under SpecBackup *)

\* the cascade of the profile as app.run builds it
Fresh(buckets) ==
  [n \in DOMAIN buckets |-> addBucket(buckets[n].interval, buckets[n].cap)]

\* the snapshots the send commands built so far are for, in order
Started == [j \in DOMAIN calls |-> calls[j].s]

IsPrefix(s, t) == Len(s) <= Len(t) /\ \A j \in DOMAIN s : s[j] = t[j]

\* what the claim calls need, unwanted and toSend, from the two scans
PlanNeed == src \ dst
PlanEvicted == Range(insert(Fresh(c.buckets), dst \cup PlanNeed).out)
PlanToSend == SortAsc(PlanNeed \ PlanEvicted)

\* C6: the transfers of a backup run are started in strictly ascending order
\* of creation time and are, in that order, the snapshots of the source that
\* the destination lacks, less those that classifying destination and need
\* with the destination's tiers evicts: at any time a prefix of them, all of
\* them when the run returns without error, and then all are published.
C6_Plan ==
  bpc # "start" =>
    /\ IsPrefix(Started, PlanToSend)
    /\ \A i, j \in DOMAIN calls : i < j => calls[i].s < calls[j].s
    /\ bpc = "ok" => Started = PlanToSend
    /\ (bpc = "ok" /\ ~dryRun) => findSnaps(dstDir) = dst \cup Range(PlanToSend)

\* a run has returned after two transfers, having passed over an unwanted
\* snapshot, to a destination that held snapshots
C6_Witness ==
  /\ bpc = "ok" /\ ~dryRun /\ Len(calls) >= 2
  /\ need \cap unwanted # {} /\ dst # {}

\* C7: the parent of every send command is the most recent base older than
\* the snapshot sent, the bases being have and the snapshots sent before it
\* in this run; there is no parent exactly when no base is older.
C7_ParentMostRecent ==
  ~dryRun =>
    \A j \in DOMAIN calls :
      LET bases == have \cup {calls[i].s : i \in 1..(j - 1)}
          older == {t \in bases : t < calls[j].s}
      IN calls[j].parent = IF older = {} THEN NoParent ELSE Max(older)

\* C8: in a run that is no dry run, the bases are have and the snapshots
\* published in this run, no others; so every base is a snapshot of the
\* destination, the references and the parent of a running transfer are
\* snapshots of the destination, and the snapshot in flight or failed is no
\* base.
C8_BasesPublished ==
  (~dryRun /\ bpc # "start") =>
    /\ Range(haveS) = have \cup (findSnaps(dstDir) \ dst)
    /\ Range(haveS) \subseteq findSnaps(dstDir)
    /\ bpc \in {"transfer", "error"} =>
         /\ cur \notin Range(haveS)
         /\ Range(sendArgs.refs) \subseteq findSnaps(dstDir)
         /\ sendArgs.parent # NoParent => sendArgs.parent \in findSnaps(dstDir)

\* a transfer runs whose parent was sent earlier in the same run
C8_Witness ==
  /\ ~dryRun /\ bpc = "transfer"
  /\ sendArgs.parent # NoParent /\ sendArgs.parent \notin have
  /\ sendArgs.parent \in findSnaps(dstDir)

\* C9: the scan of the destination changes only when both commands of a
\* transfer have ended well, and then by the transferred snapshot alone;
\* after a transfer in which a command failed, the scan yields what it
\* yielded before that transfer, whatever is left in the staging directory.
C9_PublishAfterBoth ==
  /\ [][ findSnaps(dstDir') # findSnaps(dstDir) =>
           /\ emit = "ok" /\ consume = "ok"
           /\ findSnaps(dstDir') = findSnaps(dstDir) \cup {cur} ]_vars
  /\ []( (bpc = "error" /\ (emit = "failed" \/ consume = "failed")) =>
           /\ cur \notin findSnaps(dstDir)
           /\ findSnaps(dstDir) = dst \cup {calls[j].s : j \in 1..(Len(calls) - 1)} )

\* the second transfer of a run has failed and left a received part in its
\* staging directory
C9_Witness ==
  /\ bpc = "error" /\ consume = "failed" /\ Len(calls) = 2
  /\ [name |-> recvName(cur), sub |-> TRUE] \in dstDir

----------------------------------------------------------------------------
(* main.go lines 301-375: one transfer in detail.                           *)
(*                                                                         *)
(* btrfs send writes its stream to an operating-system pipe; a copier of   *)
(* os/exec (send.Stdout = pw is no *os.File) reads that pipe and writes to *)
(* pw.  pw and pr are the two ends of io.Pipe: a Write blocks until a Read *)
(* has taken the data or pr is closed.  A second copier (recv.Stdin = pr)  *)
(* reads pr and writes to the pipe that is the standard input of btrfs     *)
(* receive.  cmd.Wait returns when the command has ended and its copier    *)
(* has stopped.  The context of the errgroup is cancelled by the first     *)
(* goroutine that returns an error; exec.CommandContext then kills the     *)
(* commands.                                                               *)

Ended == {"ok", "failed"}
Returned == {"ok", "err"}

InitPipe ==
  /\ c = Idle(<<>>) /\ input = {}
  /\ NoBackup
  /\ NoRun
  /\ \E n \in 0..MaxChunks :
       p = [NoPipe EXCEPT !.gS = "start", !.gR = "start", !.left = n]

PipeStep(st) == p' = st /\ UNCHANGED <<cascadeVars, backupVars, runVars>>

\* the goroutine of line 369 without its deferred pw.Close (a faulty variant)
closeWrite_missing(st) == st

\* line 370: defer pw.Close()
closeWrite(st) == [st EXCEPT !.pwClosed = TRUE]

\* the goroutine of line 365 without its deferred pr.Close (a faulty variant)
closeRead_missing(st) == st

\* line 366: defer pr.Close()
closeRead(st) == [st EXCEPT !.prClosed = TRUE]

\* lines 304, 351, 371: send.Start succeeds (the context is not done)
SendStart ==
  /\ p.gS = "start" /\ ~p.ctxDone
  /\ PipeStep([p EXCEPT !.gS = "wait", !.sendProc = "running", !.sendCopier = "read"])

\* lines 304-306, 370: send.Start fails (the context is done, or exec fails)
SendStartFail ==
  /\ p.gS = "start"
  /\ PipeStep(closeWrite([p EXCEPT !.gS = "err"]))

\* lines 304, 333, 367: recv.Start succeeds
RecvStart ==
  /\ p.gR = "start" /\ ~p.ctxDone
  /\ PipeStep([p EXCEPT !.gR = "wait", !.recvProc = "running", !.recvCopier = "read"])

\* lines 304-306, 366: recv.Start fails
RecvStartFail ==
  /\ p.gR = "start"
  /\ PipeStep(closeRead([p EXCEPT !.gR = "err"]))

\* btrfs send writes a piece of the stream to its standard output
SendWrite ==
  /\ p.sendProc = "running" /\ p.left > 0 /\ p.osOut < PipeCap
  /\ p.sendCopier \in {"read", "write"}
  /\ PipeStep([p EXCEPT !.left = @ - 1, !.osOut = @ + 1])

\* btrfs send writes to a pipe nobody reads any more, and dies of it
SendBrokenPipe ==
  /\ p.sendProc = "running" /\ p.left > 0
  /\ p.sendCopier \in {"done", "err"}
  /\ PipeStep([p EXCEPT !.sendProc = "failed"])

\* btrfs send has written its stream and exits with status 0
SendExit ==
  /\ p.sendProc = "running" /\ p.left = 0
  /\ PipeStep([p EXCEPT !.sendProc = "ok"])

\* btrfs send fails
SendFail ==
  /\ p.sendProc = "running"
  /\ PipeStep([p EXCEPT !.sendProc = "failed"])

\* exec.CommandContext kills btrfs send when the context is done (line 351)
SendKill ==
  /\ p.sendProc = "running" /\ p.ctxDone
  /\ PipeStep([p EXCEPT !.sendProc = "failed"])

\* the copier of send.Stdout reads a piece from the pipe of btrfs send and
\* calls pw.Write (line 352)
SendCopierRead ==
  /\ p.sendCopier = "read" /\ p.osOut > 0
  /\ PipeStep([p EXCEPT !.sendCopier = "write", !.osOut = @ - 1])

\* the copier of send.Stdout reads end-of-file: btrfs send has ended
SendCopierEOF ==
  /\ p.sendCopier = "read" /\ p.osOut = 0 /\ p.sendProc \in Ended
  /\ PipeStep([p EXCEPT !.sendCopier = "done"])

\* pw.Write returns io.ErrClosedPipe: pr is closed
SendCopierClosed ==
  /\ p.sendCopier = "write" /\ p.prClosed
  /\ PipeStep([p EXCEPT !.sendCopier = "err"])

\* pr.Read of the copier of recv.Stdin takes the piece of a blocked pw.Write,
\* which returns (line 334)
PipeTransfer ==
  /\ p.recvCopier = "read" /\ p.sendCopier = "write" /\ ~p.prClosed
  /\ PipeStep([p EXCEPT !.recvCopier = "write", !.sendCopier = "read"])

\* pr.Read returns io.EOF: pw is closed; the copier closes the standard
\* input of btrfs receive
RecvCopierEOF ==
  /\ p.recvCopier = "read" /\ p.pwClosed /\ p.sendCopier # "write"
  /\ PipeStep([p EXCEPT !.recvCopier = "done", !.stdinClosed = TRUE])

\* the copier of recv.Stdin writes its piece to the pipe of btrfs receive
RecvCopierWrite ==
  /\ p.recvCopier = "write" /\ p.recvProc = "running" /\ p.osIn < PipeCap
  /\ PipeStep([p EXCEPT !.recvCopier = "read", !.osIn = @ + 1])

\* the copier of recv.Stdin writes to the pipe of a btrfs receive that has
\* ended: the write fails and the copier stops
RecvCopierBrokenPipe ==
  /\ p.recvCopier = "write" /\ p.recvProc \in Ended
  /\ PipeStep([p EXCEPT !.recvCopier = "done", !.stdinClosed = TRUE])

\* btrfs receive reads a piece of the stream
RecvRead ==
  /\ p.recvProc = "running" /\ p.osIn > 0
  /\ PipeStep([p EXCEPT !.osIn = @ - 1])

\* btrfs receive reads end-of-file and exits with status 0
RecvExit ==
  /\ p.recvProc = "running" /\ p.osIn = 0 /\ p.stdinClosed
  /\ PipeStep([p EXCEPT !.recvProc = "ok"])

\* btrfs receive fails
RecvFail ==
  /\ p.recvProc = "running"
  /\ PipeStep([p EXCEPT !.recvProc = "failed"])

\* exec.CommandContext kills btrfs receive when the context is done (line 333)
RecvKill ==
  /\ p.recvProc = "running" /\ p.ctxDone
  /\ PipeStep([p EXCEPT !.recvProc = "failed"])

\* lines 307-319, 369-372: send.Wait returns, the command has ended and its
\* copier has stopped; the goroutine returns
SendWaitReturn ==
  /\ p.gS = "wait" /\ p.sendProc \in Ended /\ p.sendCopier \in {"done", "err"}
  /\ PipeStep(closeWrite([p EXCEPT !.gS = IF p.sendProc = "ok" /\ p.sendCopier = "done"
                                          THEN "ok" ELSE "err"]))

\* lines 307-319, 365-368: recv.Wait returns; the goroutine returns
RecvWaitReturn ==
  /\ p.gR = "wait" /\ p.recvProc \in Ended /\ p.recvCopier = "done"
  /\ PipeStep(closeRead([p EXCEPT !.gR = IF p.recvProc = "ok" THEN "ok" ELSE "err"]))

\* errgroup: the first goroutine to return an error cancels the context (line 323)
GroupCancel ==
  /\ p.gS = "err" \/ p.gR = "err"
  /\ ~p.ctxDone
  /\ PipeStep([p EXCEPT !.ctxDone = TRUE])

\* line 373: g.Wait returns when both goroutines have returned
GroupWait ==
  /\ p.wait = "none" /\ p.gS \in Returned /\ p.gR \in Returned
  /\ PipeStep([p EXCEPT !.wait = IF p.gS = "ok" /\ p.gR = "ok" THEN "ok" ELSE "err",
                        !.ctxDone = TRUE])

NextPipe ==
  \/ SendStart \/ SendStartFail \/ RecvStart \/ RecvStartFail
  \/ SendWrite \/ SendBrokenPipe \/ SendExit \/ SendFail \/ SendKill
  \/ SendCopierRead \/ SendCopierEOF \/ SendCopierClosed \/ PipeTransfer
  \/ RecvCopierEOF \/ RecvCopierWrite \/ RecvCopierBrokenPipe
  \/ RecvRead \/ RecvExit \/ RecvFail \/ RecvKill
  \/ SendWaitReturn \/ RecvWaitReturn \/ GroupCancel \/ GroupWait

\* every goroutine that can run does run, and a command that can take a step
\* takes one
SpecPipe == InitPipe /\ [][NextPipe]_vars /\ WF_vars(NextPipe)

\* one of the two operations has failed
PipeFailed ==
  \/ p.sendProc = "failed" \/ p.recvProc = "failed"
  \/ p.gS = "err" \/ p.gR = "err"

\* C10: once one of the two operations of a transfer has failed, g.Wait
\* returns an error in the end, and g.Wait returns in every run: no
\* goroutine stays blocked in a read or write of the pipe.
C10_NoHang ==
  /\ PipeFailed ~> (p.wait = "err")
  /\ <>(p.wait # "none")

\* btrfs receive has failed while btrfs send is blocked writing: its pipe is
\* full and the copier of its output is blocked in pw.Write
C10_Witness ==
  /\ p.recvProc = "failed" /\ p.sendProc = "running"
  /\ p.osOut = PipeCap /\ p.left > 0 /\ p.sendCopier = "write"
  /\ p.wait = "none"

----------------------------------------------------------------------------
(* More claims on the backup run, under SpecBackup *)

\* the operations of backupSingle that run
Active == {x \in {"emit", "consume"} : (IF x = "emit" THEN emit ELSE consume) = "running"}

\* C11: the transfers of a backup run do not overlap: outside backupSingle no
\* btrfs send and no btrfs receive runs, so both operations of a transfer
\* have ended when the next pair is started and when backup returns, and
\* the operations that run at any time are at most the one pair.
C11_NoOverlap ==
  /\ [](bpc # "transfer" => Active = {})
  /\ [](Cardinality(Active) <= 2)
  /\ [][ Len(calls') > Len(calls) => Active = {} ]_vars

\* the second transfer of a run is under way, both of its operations running
C11_Witness ==
  /\ bpc = "transfer" /\ Len(calls) = 2 /\ Cardinality(Active) = 2

\* C14: when a transfer fails, backup returns the error and starts no later
\* transfer: the snapshots of all the send commands but the last are
\* published, after an error nothing more is started or published, the
\* loop stands at the failed snapshot, and what was published stays so.
C14_FailureEndsRun ==
  /\ []( (~dryRun /\ bpc # "start") =>
          /\ \A j \in 1..(Len(calls) - 1) : calls[j].s \in findSnaps(dstDir)
          /\ dst \subseteq findSnaps(dstDir)
          /\ bpc = "error" => /\ idx <= Len(needS) /\ needS[idx] = cur
                              /\ cur \notin findSnaps(dstDir) )
  /\ [][ bpc = "error" => /\ calls' = calls /\ bpc' = "error"
                          /\ findSnaps(dstDir') = findSnaps(dstDir) ]_vars
  /\ [][ (emit = "failed" \/ consume = "failed") => calls' = calls ]_vars

\* the second transfer of a run has failed, the first is published, and a
\* later snapshot of the plan is left unsent
C14_Witness ==
  /\ ~dryRun /\ bpc = "error" /\ Len(calls) = 2
  /\ emit = "failed" \/ consume = "failed"
  /\ calls[1].s \in findSnaps(dstDir) \ dst
  /\ \E j \in (idx + 1)..Len(needS) : needS[j] \notin unwanted

----------------------------------------------------------------------------
(* More claims on the classification pass, under Spec *)

\* C20: a bucket of capacity 0 keeps nothing and evicts what it is offered:
\* while the pass is at such a bucket every snapshot it has looked at is in
\* out and overflow is empty, the pass does not panic there, the input of
\* the bucket is all in out when the pass leaves it, the next bucket gets an
\* empty input, no later bucket holds a snapshot, and out only grows.
C20_ZeroCapacity ==
  /\ [](\A k \in DOMAIN c.buckets :
          (c.buckets[k].cap = 0 /\ c.pc # "idle") =>
             /\ Kept(c.buckets[k]) = {}
             /\ c.pc # "panic"
             /\ c.b = k => /\ c.overflow = <<>>
                           /\ \A j \in 1..c.i : c.in[j] \in Range(c.out)
             /\ c.b > k => /\ c.in = <<>>
                           /\ \A n \in (k + 1)..Len(c.buckets) : Kept(c.buckets[n]) = {})
  /\ [][ /\ IsPrefix(c.out, c'.out)
         /\ ( /\ c.pc = "loop" /\ c.b <= Len(c.buckets) /\ c.i >= Len(c.in)
              /\ c.buckets[c.b].cap = 0 ) =>
               /\ Range(c.in) \subseteq Range(c.out)
               /\ c'.in = <<>> ]_vars

\* a pass has returned on two buckets, the first of capacity 0 and offered
\* two snapshots or more, the second with room that stayed empty
C20_Witness ==
  /\ c.pc = "done" /\ Len(c.buckets) = 2
  /\ c.buckets[1].cap = 0 /\ c.buckets[2].cap > 0
  /\ Cardinality(input) >= 2 /\ Range(c.out) = input
  /\ Kept(c.buckets[2]) = {}

----------------------------------------------------------------------------
(* Specification SpecReset: classification passes on one cascade, each a   *)
(* whole cascade.insert call on the same input, with cascade.reset between *)
(* them.                                                                   *)

\* what a finished pass kept, bucket by bucket, and what it returned
passResult(st) ==
  [kept |-> [n \in DOMAIN st.buckets |-> Kept(st.buckets[n])],
   out  |-> Range(st.out)]

\* cascade.insert, config.go lines 166-194, from call to return
ClassifyCall ==
  /\ c.pc = "idle" /\ Len(passes) < MaxPasses
  /\ c' = insert(c.buckets, input)
  /\ passes' = Append(passes, passResult(c'))
  /\ UNCHANGED <<input, backupVars, p, r, scan>>

\* cascade.reset, config.go lines 196-203, after a pass
ResetCall ==
  /\ c.pc = "done"
  /\ c' = Idle(reset(c.buckets))
  /\ UNCHANGED <<input, backupVars, p, runVars>>

NextReset == ClassifyCall \/ ResetCall

SpecReset == Init /\ [][NextReset]_vars

\* the slots of all rings that hold a snapshot
StaleSlots(buckets) ==
  {kj \in UNION {{<<k, j>> : j \in DOMAIN buckets[k].snaps} : k \in DOMAIN buckets}
     : buckets[kj[1]].snaps[kj[2]] # Nil}

\* C15: a pass on a cascade that was reset after an earlier pass on the same
\* input keeps in every bucket what the first pass kept and returns the
\* snapshots the first pass returned.
C15_ResetIdempotent ==
  \A j \in DOMAIN passes : passes[j] = passes[1]

\* C16: after reset, before the next pass, no ring slot of any bucket holds
\* a snapshot.
C16_ResetEmpties ==
  (c.pc = "idle" /\ Len(passes) >= 1) => StaleSlots(c.buckets) = {}

----------------------------------------------------------------------------
(* Specification SpecRun: app.run on a backup profile, main.go lines       *)
(* 451-502: the cascade is built, backup runs if asked for (the actions of *)
(* SpecBackup), the cascade is built anew, prune runs if asked for.        *)

RunTimes == 1..MaxRunTime

\* the buckets of the profile; a Size may be 0 or negative, which
\* bucketJSON.validate (config.go lines 94-102) lets pass
RunTierDefs == [interval : {0, 2}, size : {0, MaxCap}] \cup {[interval |-> 0, size |-> -1]}

InitRun ==
  /\ c = Idle(<<>>) /\ input = {}
  /\ dryRun \in BOOLEAN
  /\ \E defs \in SeqsUpTo(RunTierDefs, MaxRunTiers), bk \in BOOLEAN, pr \in BOOLEAN :
       /\ r = [pc |-> "start", defs |-> defs, backup |-> bk, prune |-> pr,
               snaps |-> {}, out |-> <<>>, k |-> 1, tried |-> <<>>, failed |-> 0]
       /\ \E S \in SUBSET RunTimes :
            /\ ~bk => S = {}       \* the source profile is read by backup alone
            /\ srcDir = {snapEntry(t) : t \in S}
  /\ \E D \in SUBSET RunTimes : dstDir = {snapEntry(t) : t \in D}
  /\ bpc = "none"
  /\ src = {} /\ dst = {} /\ need = {} /\ have = {}
  /\ needS = <<>> /\ unwanted = {} /\ haveS = <<>> /\ idx = 1
  /\ cur = Nil /\ sendArgs = [refs |-> <<>>, parent |-> NoParent]
  /\ emit = "idle" /\ consume = "idle" /\ calls = <<>>
  /\ p = NoPipe /\ passes = <<>> /\ scan = [pc |-> "none"]

RunStep(rr) == r' = rr /\ UNCHANGED <<cascadeVars, backupVars, p, passes, scan>>

\* lines 469-471: addBucket for every bucket of the profile; a negative Size
\* makes make([]*snap, 0, size) panic
RunConstruct ==
  /\ r.pc = "start"
  /\ IF \E n \in DOMAIN r.defs : r.defs[n].size < 0
       THEN /\ r' = [r EXCEPT !.pc = "panic"]
            /\ c' = c
       ELSE /\ r' = [r EXCEPT !.pc = "built"]
            /\ c' = Idle(newCascade(r.defs))
  /\ UNCHANGED <<input, backupVars, p, passes, scan>>

\* lines 477-478: a.backup is called
RunBackup ==
  /\ r.pc = "built" /\ r.backup
  /\ r' = [r EXCEPT !.pc = "backup"]
  /\ bpc' = "start"
  /\ UNCHANGED <<cascadeVars, dryRun, srcDir, dstDir, src, dst, need, have, needS, unwanted,
                 haveS, idx, cur, sendArgs, emit, consume, calls, p, passes, scan>>

\* line 477: no backup is asked for
RunNoBackup == r.pc = "built" /\ ~r.backup /\ RunStep([r EXCEPT !.pc = "backedUp"])

\* line 478: a.backup has returned nil
RunBackupOk == r.pc = "backup" /\ bpc = "ok" /\ RunStep([r EXCEPT !.pc = "backedUp"])

\* lines 478-480: a.backup has returned an error, and run returns it
RunBackupErr == r.pc = "backup" /\ bpc = "error" /\ RunStep([r EXCEPT !.pc = "backupErr"])

\* pruneCascade without the addBucket loop of lines 483-485 (a faulty variant)
pruneCascade_noBuckets(old, defs) == <<>>

\* pruneCascade that keeps the cascade backup has used (a faulty variant)
pruneCascade_reuse(old, defs) == old

\* lines 482-485: a new cascade with the buckets of the profile
pruneCascade(old, defs) == newCascade(defs)

\* lines 482-486 and prune, lines 170-175: the cascade is built anew, the
\* storage directory is scanned and the scan is classified
RunPrune ==
  /\ r.pc = "backedUp" /\ r.prune
  /\ LET snaps == findSnaps(dstDir)
         res   == insert(pruneCascade(c.buckets, r.defs), snaps)
     IN /\ c' = res
        /\ input' = snaps
        /\ r' = [r EXCEPT !.pc = "prune", !.snaps = snaps, !.out = res.out, !.k = 1]
  /\ UNCHANGED <<backupVars, p, passes, scan>>

\* lines 486 and 501: no prune is asked for
RunNoPrune == r.pc = "backedUp" /\ ~r.prune /\ RunStep([r EXCEPT !.pc = "done"])

\* line 178: os.Stat finds the directory "snapshot" of s
hasSnapshot(dir, t) == snapEntry(t) \in dir

\* lines 179-183: btrfs subvolume delete takes "snapshot" out of the directory of s
deleteSubvol(dir, t) == (dir \ {snapEntry(t)}) \cup {[name |-> Format(t), sub |-> FALSE]}

\* lines 178-186 when the command does not fail
afterDelete(dir, t) == IF hasSnapshot(dir, t) THEN deleteSubvol(dir, t) ELSE dir

\* line 188: os.Remove takes away the directory of s, which must be empty
removeDir(dir, t) == dir \ {[name |-> Format(t), sub |-> FALSE]}

\* pruneReturnErr that goes on with the next snapshot (a faulty variant)
pruneReturnErr_continue(rr) == [rr EXCEPT !.k = @ + 1]

\* lines 184 and 189: prune returns the error, and run returns it (line 488)
pruneReturnErr(rr) == [rr EXCEPT !.pc = "pruneErr"]

\* one turn of the loop of prune, lines 176-192, in which nothing fails
PruneDelete ==
  /\ r.pc = "prune" /\ r.k <= Len(r.out) /\ executes(dryRun)
  /\ [name |-> Format(r.out[r.k]), sub |-> FALSE] \in afterDelete(dstDir, r.out[r.k])
  /\ dstDir' = removeDir(afterDelete(dstDir, r.out[r.k]), r.out[r.k])
  /\ r' = [r EXCEPT !.k = @ + 1, !.tried = Append(@, r.out[r.k])]
  /\ UNCHANGED <<cascadeVars, dryRun, srcDir, bpc, src, dst, need, have, needS, unwanted,
                 haveS, idx, cur, sendArgs, emit, consume, calls, p, passes, scan>>

\* one turn of the loop of prune in a dry run: btrfsCmd prints the command
\* and returns nil (lines 426-432), os.Remove is passed over (line 187)
PruneDeleteDry ==
  /\ r.pc = "prune" /\ r.k <= Len(r.out) /\ dryRun
  /\ RunStep([r EXCEPT !.k = @ + 1, !.tried = Append(@, r.out[r.k])])

\* btrfs subvolume delete fails, lines 179-185: the snapshot stays
PruneDeleteFail ==
  /\ r.pc = "prune" /\ r.k <= Len(r.out) /\ executes(dryRun)
  /\ hasSnapshot(dstDir, r.out[r.k])
  /\ RunStep(pruneReturnErr([r EXCEPT !.tried = Append(@, r.out[r.k]), !.failed = r.k]))

\* os.Remove fails, lines 187-190, after the subvolume is deleted
PruneRemoveFail ==
  /\ r.pc = "prune" /\ r.k <= Len(r.out) /\ executes(dryRun)
  /\ dstDir' = afterDelete(dstDir, r.out[r.k])
  /\ r' = pruneReturnErr([r EXCEPT !.tried = Append(@, r.out[r.k]), !.failed = r.k])
  /\ UNCHANGED <<cascadeVars, dryRun, srcDir, bpc, src, dst, need, have, needS, unwanted,
                 haveS, idx, cur, sendArgs, emit, consume, calls, p, passes, scan>>

\* lines 193 and 501: the loop of prune is over
PruneReturn == r.pc = "prune" /\ r.k > Len(r.out) /\ RunStep([r EXCEPT !.pc = "done"])

NextRun ==
  \/ RunConstruct \/ RunBackup \/ RunNoBackup \/ RunBackupOk \/ RunBackupErr
  \/ RunPrune \/ RunNoPrune \/ PruneDelete \/ PruneDeleteDry \/ PruneDeleteFail
  \/ PruneRemoveFail \/ PruneReturn
  \/ NextBackup

SpecRun == InitRun /\ [][NextRun]_vars

----------------------------------------------------------------------------
(* Claims on the whole run, under SpecRun *)

\* prune has classified the scan of the storage directory
Pruning == r.pc \in {"prune", "pruneErr"} \/ (r.pc = "done" /\ r.prune)

\* the classification of the scan of prune on a newly built cascade with
\* the buckets of the profile
PruneFresh == insert(newCascade(r.defs), r.snaps)

\* C12: prune calls the delete operation only for snapshots that the
\* classification of the scan of the storage directory, on a new cascade
\* with the profile's buckets, returns; a snapshot that this classification
\* keeps in a bucket stays in the directory; and when prune returns nil in a
\* run that is no dry run, the directory holds the kept snapshots and no
\* others.
C12_PruneEvicted ==
  (r.pc # "none" /\ Pruning) =>
    /\ Range(r.tried) \subseteq Range(PruneFresh.out)
    /\ AllKept(PruneFresh) \subseteq findSnaps(dstDir)
    /\ findSnaps(dstDir) \subseteq r.snaps
    /\ r.snaps \ findSnaps(dstDir) \subseteq Range(r.tried)
    /\ (r.pc = "done" /\ ~dryRun) => findSnaps(dstDir) = AllKept(PruneFresh)

\* a prune of three snapshots with two buckets has deleted one and kept two
C12_Witness ==
  /\ r.pc = "done" /\ r.prune /\ ~dryRun /\ Len(r.defs) = 2
  /\ Cardinality(r.snaps) = 3 /\ Len(r.tried) = 1
  /\ Cardinality(findSnaps(dstDir)) = 2

\* C13: when a deletion fails, prune returns the error: the deletions tried
\* are those of the returned snapshots up to the failing one, each tried
\* once, the snapshots before it are gone from the directory and those
\* after it are still there, and after the error nothing changes.
C13_DeleteFailureAborts ==
  /\ []( (r.pc # "none" /\ r.failed # 0) =>
            /\ r.pc = "pruneErr"
            /\ r.k = r.failed
            /\ r.tried = SubSeq(r.out, 1, r.k)
            /\ \A i, j \in DOMAIN r.tried : i # j => r.tried[i] # r.tried[j]
            /\ \A j \in 1..(r.k - 1) : r.out[j] \notin findSnaps(dstDir)
            /\ \A j \in (r.k + 1)..Len(r.out) : r.out[j] \in findSnaps(dstDir) )
  /\ [][ r.pc = "pruneErr" => (r' = r /\ dstDir' = dstDir) ]_vars

\* the second of three deletions has failed, the first snapshot is deleted
C13_Witness ==
  /\ r.pc = "pruneErr" /\ r.failed = 2 /\ Len(r.out) = 3
  /\ r.out[1] \notin findSnaps(dstDir) /\ r.out[3] \in findSnaps(dstDir)

\* C17: in a run with backup and prune, prune returns for deletion what a
\* newly built cascade with the profile's buckets returns for the scan of
\* the storage directory, and keeps what that cascade keeps.
C17_PruneUnaffected ==
  (r.pc # "none" /\ Pruning /\ r.backup) =>
    /\ r.out = PruneFresh.out
    /\ (r.pc = "done" /\ ~dryRun) => findSnaps(dstDir) = AllKept(PruneFresh)

\* backup has simulated on a bucket of interval 0 that displaced a snapshot,
\* has sent a snapshot, and prune has then deleted one and kept others
C17_Witness ==
  /\ r.pc = "done" /\ r.backup /\ r.prune /\ ~dryRun
  /\ \A n \in DOMAIN r.defs : r.defs[n].interval = 0 /\ r.defs[n].size > 0
  /\ unwanted # {} /\ Len(calls) >= 1
  /\ Len(r.tried) >= 1 /\ findSnaps(dstDir) # {}

\* C19: a profile with a bucket of Size zero or less does not get past the
\* construction of the cascade: run ends there, before backup or prune.
C19_NonPositiveFatal ==
  (r.pc # "none" /\ \E n \in DOMAIN r.defs : r.defs[n].size <= 0) =>
    r.pc \in {"start", "panic"}

----------------------------------------------------------------------------
(* Specification SpecPlan: one planning run of app.backup, main.go lines   *)
(* 228-283, with the records delivered in any order: by os.ReadDir in      *)
(* findSnaps, and by the range loops over the maps need and have.  The     *)
(* scan of the source goes into the map srcM (lines 237-240) and is read   *)
(* through it alone, so its order is lost there.                           *)

RECURSIVE Perms(_)
\* the orders in which the elements of S can be delivered
Perms(S) ==
  IF S = {} THEN {<<>>}
  ELSE UNION {{<<x>> \o q : q \in Perms(S \ {x})} : x \in S}

\* sortSlice that leaves the slice as it is (a faulty variant)
sortSlice_none(q) == q

RECURSIVE sortSlice(_)
\* sort.Slice(q, created.Before), lines 263-265, 281-283 and config.go
\* lines 167-169, as an insertion sort
sortSlice(q) ==
  IF q = <<>> THEN <<>>
  ELSE LET rest == sortSlice(Tail(q))
           x    == Head(q)
       IN SelectSeq(rest, LAMBDA y : y < x) \o <<x>> \o SelectSeq(rest, LAMBDA y : ~(y < x))

\* cascade.insert on a slice: the slice is sorted, then classified
insertSlice(buckets, q) == insertRun([insertEntry(buckets, {}) EXCEPT !.in = sortSlice(q)])

\* lines 259-288 for a scan of the destination delivered in the order
\* dstSeq and the maps need and have delivering in the orders needOrd and
\* haveOrd; toSend is what the loop of lines 285-288 does not pass over
planOf(buckets, dstSeq, needOrd, haveOrd) ==
  LET sorted == sortSlice(needOrd)
      unw    == Range(insertSlice(buckets, dstSeq \o sorted).out)
  IN [needS    |-> sorted,
      unwanted |-> unw,
      haveS    |-> sortSlice(haveOrd),
      toSend   |-> SelectSeq(sorted, LAMBDA t : t \notin unw)]

InitPlan ==
  /\ \E defs \in SeqsUpTo(BackupTierDefs, MaxPlanTiers) : c = Idle(newCascade(defs))
  /\ input = {}
  /\ dryRun = FALSE
  /\ \E S \in SUBSET Times : srcDir = {snapEntry(t) : t \in S}
  /\ \E D \in SUBSET Times : dstDir = {snapEntry(t) : t \in D}
  /\ bpc = "none"
  /\ src = {} /\ dst = {} /\ need = {} /\ have = {}
  /\ needS = <<>> /\ unwanted = {} /\ haveS = <<>> /\ idx = 1
  /\ cur = Nil /\ sendArgs = [refs |-> <<>>, parent |-> NoParent]
  /\ emit = "idle" /\ consume = "idle" /\ calls = <<>>
  /\ p = NoPipe /\ r = [pc |-> "none"] /\ passes = <<>>
  /\ scan = [pc |-> "plan"]

\* the planning run, lines 228-283, on the cascade as app.run builds it
PlanRun ==
  /\ scan.pc = "plan"
  /\ LET srcM  == findSnaps(srcDir)
         dstM  == findSnaps(dstDir)
         needM == {t \in srcM : t \notin dstM}
         haveM == {t \in srcM : t \in dstM}
     IN \E dstSeq \in Perms(dstM), needOrd \in Perms(needM), haveOrd \in Perms(haveM) :
          scan' = [pc |-> "planned", dstSeq |-> dstSeq, needOrd |-> needOrd,
                   haveOrd |-> haveOrd,
                   plan |-> planOf(c.buckets, dstSeq, needOrd, haveOrd)]
  /\ UNCHANGED <<cascadeVars, backupVars, p, r, passes>>

NextPlan == PlanRun

SpecPlan == InitPlan /\ [][NextPlan]_vars

\* C18: the list to send and the unwanted set of a planning run are given
\* by the snapshots of the two directories and the buckets alone, in
\* whatever orders the records were delivered, so two planning runs on the
\* same directories and buckets agree: unwanted is what classifying the
\* destination and need returns, the list to send is need less unwanted in
\* ascending order, and the bases are have in ascending order.
C18_PlanDeterministic ==
  scan.pc = "planned" =>
    LET S == findSnaps(srcDir)
        D == findSnaps(dstDir)
        U == Range(insert(c.buckets, D \cup (S \ D)).out)
    IN /\ scan.plan.unwanted = U
       /\ scan.plan.toSend = SortAsc((S \ D) \ U)
       /\ scan.plan.haveS = SortAsc(S \cap D)

\* a planning run is done in which the scan of the destination and the map
\* need both delivered in descending order, a snapshot of need is unwanted
\* and another is to be sent
C18_Witness ==
  /\ scan.pc = "planned"
  /\ Len(scan.dstSeq) >= 2 /\ scan.dstSeq[1] > scan.dstSeq[2]
  /\ Len(scan.needOrd) >= 2 /\ scan.needOrd[1] > scan.needOrd[2]
  /\ scan.plan.unwanted \cap Range(scan.needOrd) # {}
  /\ scan.plan.toSend # <<>>

----------------------------------------------------------------------------
(* Specification SpecExampleInsert: the classification pass of Spec on the *)
(* snapshots and buckets of two worked examples, times in minutes.         *)

\* the creation time m minutes after the first time there is (ZeroTime is
\* the zero time.Time, which no snapshot has)
Minute(m) == m + 1

ExampleMinutes == {Minute(0), Minute(30), Minute(65), Minute(125)}

ExampleTiers == {<<[interval |-> 60, size |-> 2]>>, <<[interval |-> 50, size |-> 2]>>}

InitExampleInsert ==
  /\ \E defs \in ExampleTiers : c = Idle(newCascade(defs))
  /\ input \in SUBSET ExampleMinutes
  /\ NoBackup
  /\ p = NoPipe
  /\ NoRun

SpecExampleInsert == InitExampleInsert /\ [][Next]_vars

\* C21: one bucket of interval 60 minutes and Size 2, given the snapshots
\* of minutes 0, 30, 65 and 125, keeps those of minutes 65 and 125 and
\* returns those of minutes 0 and 30.
C21_Example ==
  ( /\ c.pc = "done" /\ Len(c.buckets) = 1
    /\ c.buckets[1].interval = 60 /\ c.buckets[1].cap = 2
    /\ input = ExampleMinutes ) =>
      /\ Kept(c.buckets[1]) = {Minute(65), Minute(125)}
      /\ Range(c.out) = {Minute(0), Minute(30)}

\* the pass of the example has returned
C21_Witness ==
  /\ c.pc = "done" /\ Len(c.buckets) = 1
  /\ c.buckets[1].interval = 60 /\ c.buckets[1].cap = 2
  /\ input = ExampleMinutes
  /\ Kept(c.buckets[1]) = {Minute(65), Minute(125)}

----------------------------------------------------------------------------
(* Specification SpecExampleBackup: the backup run of SpecBackup on the    *)
(* snapshots and the bucket of a worked example.                           *)

ExampleTimes == {100, 200, 250}

InitExampleBackup ==
  /\ c = Idle(newCascade(<<[interval |-> 50, size |-> 2]>>))
  /\ input = {}
  /\ dryRun \in BOOLEAN
  /\ \E S \in SUBSET ExampleTimes : srcDir = {snapEntry(t) : t \in S}
  /\ \E D \in SUBSET ExampleTimes : dstDir = {snapEntry(t) : t \in D}
  /\ bpc = "start"
  /\ src = {} /\ dst = {} /\ need = {} /\ have = {}
  /\ needS = <<>> /\ unwanted = {} /\ haveS = <<>> /\ idx = 1
  /\ cur = Nil /\ sendArgs = [refs |-> <<>>, parent |-> NoParent]
  /\ emit = "idle" /\ consume = "idle" /\ calls = <<>>
  /\ p = NoPipe
  /\ NoRun

SpecExampleBackup == InitExampleBackup /\ [][NextBackup]_vars

\* C22: with 100 and 200 at the destination, 200 and 250 at the source and
\* one bucket of interval 50 and Size 2, need is 250, the simulation on 100,
\* 200 and 250 returns 100 alone, so no snapshot of need is unwanted, and
\* the one send command of the run is for 250 with parent 200; when the run
\* returns nil and is no dry run, 250 is at the destination.
C22_Example ==
  (bpc # "start" /\ dst = {100, 200} /\ src = {200, 250}) =>
    /\ need = {250} /\ have = {200}
    /\ input = {100, 200, 250}
    /\ unwanted = {100}
    /\ unwanted \cap need = {}
    /\ \A j \in DOMAIN calls : j = 1 /\ calls[j].s = 250 /\ calls[j].parent = 200
    /\ bpc = "ok" => /\ Len(calls) = 1
                     /\ ~dryRun => findSnaps(dstDir) = {100, 200, 250}

\* the run of the example has returned nil, 250 is sent with parent 200
C22_Witness ==
  /\ bpc = "ok" /\ ~dryRun /\ dst = {100, 200} /\ src = {200, 250}
  /\ Len(calls) = 1 /\ calls[1].s = 250 /\ calls[1].parent = 200
  /\ 250 \in findSnaps(dstDir)

----------------------------------------------------------------------------
(* Claims on the order of a classification pass, under Spec *)

\* C27: at every point of a pass the input of the bucket at work is in
\* strictly ascending order of creation time, and every snapshot in the
\* ring of a later bucket is older than every snapshot in the ring of an
\* earlier bucket.
C27_Stratified ==
  /\ \A i, j \in DOMAIN c.in : i < j => c.in[i] < c.in[j]
  /\ \A k, n \in DOMAIN c.buckets :
       k < n => \A x \in Kept(c.buckets[k]), y \in Kept(c.buckets[n]) : y < x

\* a pass has returned with two snapshots in the second bucket and one or
\* more in the first
C27_Witness ==
  /\ c.pc = "done" /\ Len(c.buckets) = 2
  /\ Cardinality(Kept(c.buckets[2])) = 2 /\ Kept(c.buckets[1]) # {}

\* C28: the first bucket, when its Size is positive, accepts the oldest
\* snapshot of the input whatever its interval, and when the pass returns
\* on a non-empty input its ring holds a snapshot.
C28_KeepsOne ==
  /\ [][ ( /\ AtIter(c) /\ c.b = 1 /\ c.i = 0
           /\ c.buckets[1].cap > 0 ) =>
             /\ c'.buckets[1].snaps[0] = Min(input)
             /\ c'.out = c.out ]_vars
  /\ []( ( /\ c.pc \in {"done", "panic"} /\ Len(c.buckets) >= 1
           /\ c.buckets[1].cap > 0 /\ input # {} ) =>
             /\ c.pc = "done"
             /\ Kept(c.buckets[1]) # {} )

\* a pass has returned on a first bucket of interval 3 whose oldest
\* snapshot is younger than 3, and a later snapshot was rejected
C28_Witness ==
  /\ c.pc = "done" /\ Len(c.buckets) >= 1
  /\ c.buckets[1].cap > 0 /\ c.buckets[1].interval = 3
  /\ 1 \in input /\ 2 \in input
  /\ Kept(c.buckets[1]) # {} /\ 2 \in Range(c.out)

----------------------------------------------------------------------------
(* A frame claim on the backup run, under SpecBackup *)

\* C30: no step of a backup run takes a snapshot out of the scan of the
\* destination, and none changes the scan of the source: whatever the
\* transfers come to, what the two scans of the run reported is reported
\* afterwards too.
C30_OnlyAdds ==
  /\ [][ /\ findSnaps(dstDir) \subseteq findSnaps(dstDir')
         /\ findSnaps(srcDir') = findSnaps(srcDir) ]_vars
  /\ [](bpc # "start" => (dst \subseteq findSnaps(dstDir) /\ src = findSnaps(srcDir)))

\* a run has ended after a transfer, to a destination holding a snapshot
\* that the simulation returned
C30_Witness ==
  /\ bpc \in {"ok", "error"} /\ ~dryRun /\ Len(calls) >= 1
  /\ unwanted \cap dst # {}
  /\ unwanted \cap dst \subseteq findSnaps(dstDir)

----------------------------------------------------------------------------
(* Specification SpecReprune: prune after prune.  Each prune is in its own *)
(* invocation, so each classifies on a cascade app.run has newly built     *)
(* (main.go lines 482-485); the later ones find in the directory what the  *)
(* one before has kept.                                                    *)

\* the profile's buckets, read off a cascade built from them
defsOf(buckets) ==
  [n \in DOMAIN buckets |-> [interval |-> buckets[n].interval, size |-> buckets[n].cap]]

\* the classification of the first prune, main.go line 175
PruneFirst ==
  /\ c.pc = "idle" /\ passes = <<>>
  /\ c' = insert(pruneCascade(c.buckets, defsOf(c.buckets)), input)
  /\ passes' = <<passResult(c')>>
  /\ UNCHANGED <<input, backupVars, p, r, scan>>

\* the classification of a later prune, main.go line 175, on what the
\* prune before it kept
PruneAgain ==
  /\ c.pc = "done" /\ Len(passes) < MaxPasses
  /\ input' = AllKept(c)
  /\ c' = insert(pruneCascade(c.buckets, defsOf(c.buckets)), AllKept(c))
  /\ passes' = Append(passes, passResult(c'))
  /\ UNCHANGED <<backupVars, p, r, scan>>

NextReprune == PruneFirst \/ PruneAgain

SpecReprune == Init /\ [][NextReprune]_vars

\* C26: a prune that follows a prune, with no snapshot made in between,
\* returns no snapshot for deletion, and keeps in every bucket what the
\* prune before it kept there.
C26_PruneIdempotent ==
  \A j \in DOMAIN passes :
    j > 1 => (passes[j].out = {} /\ passes[j].kept = passes[1].kept)

\* a second prune is done after a first that returned snapshots and kept
\* snapshots in both of two buckets
C26_Witness ==
  /\ Len(passes) = 2 /\ passes[1].out # {}
  /\ Len(c.buckets) = 2 /\ Kept(c.buckets[1]) # {} /\ Kept(c.buckets[2]) # {}
  /\ c.buckets[1].interval > 0

----------------------------------------------------------------------------
(* More claims on the whole run, under SpecRun *)

\* the snapshots the send commands of the run were for
Sent == {calls[j].s : j \in DOMAIN calls}

\* C24: in a dry run no step changes the source directory or the
\* destination directory, and no btrfs send or btrfs receive is started.
C24_DryRunFrame ==
  /\ [][ dryRun => (srcDir' = srcDir /\ dstDir' = dstDir) ]_vars
  /\ [](dryRun => (emit = "idle" /\ consume = "idle"))

\* a dry run has returned after backup printed a send command and prune
\* printed a delete command
C24_Witness ==
  /\ dryRun /\ r.pc = "done" /\ Len(calls) >= 1 /\ Len(r.tried) >= 1

----------------------------------------------------------------------------
(* Specification SpecBackupPrune: a run with backup and prune in which no  *)
(* transfer and no deletion fails, each of the two handlers in one step;   *)
(* the buckets may have any Size from 0 to MaxCap.                         *)

RECURSIVE publishAll(_, _)
\* the destination directory after the transfers of toSend, each published
\* as in backupSingle, main.go lines 376-377
publishAll(dir, toSend) ==
  IF toSend = <<>> THEN dir
  ELSE publishAll(published(dir \cup {[name |-> recvName(Head(toSend)), sub |-> TRUE]},
                            Head(toSend)),
                  Tail(toSend))

InitBackupPrune ==
  /\ \E defs \in SeqsUpTo(TierDefs, MaxPlanTiers) : c = Idle(newCascade(defs))
  /\ input = {}
  /\ dryRun = FALSE
  /\ \E S \in SUBSET RunTimes : srcDir = {snapEntry(t) : t \in S}
  /\ \E D \in SUBSET RunTimes : dstDir = {snapEntry(t) : t \in D}
  /\ bpc = "start"
  /\ src = {} /\ dst = {} /\ need = {} /\ have = {}
  /\ needS = <<>> /\ unwanted = {} /\ haveS = <<>> /\ idx = 1
  /\ cur = Nil /\ sendArgs = [refs |-> <<>>, parent |-> NoParent]
  /\ emit = "idle" /\ consume = "idle" /\ calls = <<>>
  /\ p = NoPipe /\ passes = <<>> /\ scan = [pc |-> "none"]
  /\ r = [pc |-> "backupPrune", out |-> <<>>]

\* app.backup, main.go lines 219-295, when every backupSingle returns nil:
\* the plan as in BackupPlan, then every snapshot of need that is not
\* unwanted is sent and published
BackupAllOk ==
  /\ r.pc = "backupPrune" /\ bpc = "start"
  /\ LET srcScan == findSnaps(srcDir)
         dstScan == findSnaps(dstDir)
         needM   == {t \in srcScan : t \notin dstScan}
         haveM   == {t \in srcScan : t \in dstScan}
         sorted  == SortAsc(needM)
         sim     == insert(c.buckets, wouldHave(dstScan, sorted))
         toSend  == SelectSeq(sorted, LAMBDA t : t \notin Range(sim.out))
     IN /\ src' = srcScan /\ dst' = dstScan
        /\ need' = needM /\ have' = haveM
        /\ needS' = sorted
        /\ input' = wouldHave(dstScan, sorted)
        /\ unwanted' = Range(sim.out)
        /\ c' = [sim EXCEPT !.buckets = reset(@)]
        /\ haveS' = SortAsc(haveM) \o toSend
        /\ calls' = [j \in DOMAIN toSend |->
                       buildSend(toSend[j], SortAsc(haveM) \o SubSeq(toSend, 1, j - 1))]
        /\ dstDir' = publishAll(dstDir, toSend)
        /\ idx' = Len(sorted) + 1
  /\ bpc' = "ok"
  /\ UNCHANGED <<dryRun, srcDir, cur, sendArgs, emit, consume, p, runVars>>

\* main.go lines 482-486 and app.prune, lines 170-194, when no deletion
\* fails: the cascade is built anew, the scan is classified, and every
\* snapshot returned is deleted
PruneAllOk ==
  /\ r.pc = "backupPrune" /\ bpc = "ok"
  /\ LET snaps == findSnaps(dstDir)
         res   == insert(pruneCascade(c.buckets, defsOf(c.buckets)), snaps)
     IN /\ c' = res
        /\ input' = snaps
        /\ r' = [pc |-> "pruned", out |-> res.out]
        /\ dstDir' = {e \in dstDir : ~(ParseOK(e.name) /\ Parse(e.name) \in Range(res.out))}
  /\ UNCHANGED <<dryRun, srcDir, bpc, src, dst, need, have, needS, unwanted, haveS, idx,
                 cur, sendArgs, emit, consume, calls, p, passes, scan>>

NextBackupPrune == BackupAllOk \/ PruneAllOk

SpecBackupPrune == InitBackupPrune /\ [][NextBackupPrune]_vars

\* C25: when backup has returned nil, the prune that follows returns for
\* deletion none of the snapshots that backup has sent.
C25_SentSurvivePrune ==
  r.pc = "pruned" => Range(r.out) \cap Sent = {}

----------------------------------------------------------------------------
(* Specification SpecOrder: app.run, main.go lines 469-502, with create,   *)
(* backup and prune as the options ask, each handler in one step with any  *)
(* of its outcomes.                                                        *)

InitOrder ==
  /\ c = Idle(<<>>) /\ input = {}
  /\ dryRun = FALSE
  /\ \E defs \in SeqsUpTo(BackupTierDefs, MaxPlanTiers),
        cr \in BOOLEAN, bk \in BOOLEAN, pr \in BOOLEAN, D \in SUBSET RunTimes :
       /\ dstDir = {snapEntry(t) : t \in D}
       /\ r = [pc |-> "order", defs |-> defs, create |-> cr, backup |-> bk, prune |-> pr,
               at |-> "create", log |-> <<>>, err |-> "none", before |-> D]
  /\ \E S \in SUBSET RunTimes : srcDir = {snapEntry(t) : t \in S}
  /\ bpc = "none"
  /\ src = {} /\ dst = {} /\ need = {} /\ have = {}
  /\ needS = <<>> /\ unwanted = {} /\ haveS = <<>> /\ idx = 1
  /\ cur = Nil /\ sendArgs = [refs |-> <<>>, parent |-> NoParent]
  /\ emit = "idle" /\ consume = "idle" /\ calls = <<>>
  /\ p = NoPipe /\ passes = <<>> /\ scan = [pc |-> "none"]

\* failed that lets run go on with the next handler (a faulty variant)
failed_goesOn(rr, op, next) == [rr EXCEPT !.err = op, !.at = next]

\* lines 473-475, 478-480, 487-489: run returns the error of the handler
failed(rr, op, next) == [rr EXCEPT !.err = op, !.at = "error"]

\* lines 469-476: the cascade is built; create is called if asked for
\* (lines 196-216).  It makes the directory named after time.Now and the
\* snapshot in it, or fails and leaves no directory behind.
OrderCreate ==
  /\ r.pc = "order" /\ r.at = "create"
  /\ c' = Idle(newCascade(r.defs))
  /\ IF r.create
       THEN \E ok \in BOOLEAN :
              IF ok
                THEN \E now \in RunTimes \ findSnaps(dstDir) :
                       /\ dstDir' = dstDir \cup {snapEntry(now)}
                       /\ r' = [r EXCEPT !.log = Append(@, "create"), !.at = "backup",
                                          !.before = @ \cup {now}]
                ELSE /\ dstDir' = dstDir
                     /\ r' = failed([r EXCEPT !.log = Append(@, "create")], "create", "backup")
       ELSE /\ dstDir' = dstDir
            /\ r' = [r EXCEPT !.at = "backup"]
  /\ UNCHANGED <<input, dryRun, srcDir, bpc, src, dst, need, have, needS, unwanted, haveS,
                 idx, cur, sendArgs, emit, consume, calls, p, passes, scan>>

\* lines 477-481: backup is called if asked for (lines 219-295).  Of the
\* snapshots it has to send, the first n are sent and published; when
\* there are more, the next transfer fails and backup returns the error.
OrderBackup ==
  /\ r.pc = "order" /\ r.at = "backup"
  /\ IF r.backup
       THEN LET srcScan == findSnaps(srcDir)
                dstScan == findSnaps(dstDir)
                sorted  == SortAsc({t \in srcScan : t \notin dstScan})
                sim     == insert(c.buckets, wouldHave(dstScan, sorted))
                toSend  == SelectSeq(sorted, LAMBDA t : t \notin Range(sim.out))
            IN \E n \in 0..Len(toSend) :
                 /\ c' = [sim EXCEPT !.buckets = reset(@)]
                 /\ input' = wouldHave(dstScan, sorted)
                 /\ dstDir' = publishAll(dstDir, SubSeq(toSend, 1, n))
                 /\ r' = IF n = Len(toSend)
                           THEN [r EXCEPT !.log = Append(@, "backup"), !.at = "prune"]
                           ELSE failed([r EXCEPT !.log = Append(@, "backup")], "backup", "prune")
       ELSE /\ r' = [r EXCEPT !.at = "prune"]
            /\ UNCHANGED <<c, input, dstDir>>
  /\ UNCHANGED <<dryRun, srcDir, bpc, src, dst, need, have, needS, unwanted, haveS,
                 idx, cur, sendArgs, emit, consume, calls, p, passes, scan>>

\* lines 482-490: the cascade is built anew; prune is called if asked for
\* (lines 170-194).  Of the snapshots insert returns, the first n are
\* deleted; when there are more, the next deletion fails and prune returns
\* the error.
OrderPrune ==
  /\ r.pc = "order" /\ r.at = "prune"
  /\ IF r.prune
       THEN LET snaps == findSnaps(dstDir)
                res   == insert(pruneCascade(c.buckets, r.defs), snaps)
            IN \E n \in 0..Len(res.out) :
                 /\ c' = res
                 /\ input' = snaps
                 /\ dstDir' = {e \in dstDir : ~(ParseOK(e.name) /\
                                    Parse(e.name) \in Range(SubSeq(res.out, 1, n)))}
                 /\ r' = IF n = Len(res.out)
                           THEN [r EXCEPT !.log = Append(@, "prune"), !.at = "done"]
                           ELSE failed([r EXCEPT !.log = Append(@, "prune")], "prune", "done")
       ELSE /\ c' = Idle(pruneCascade(c.buckets, r.defs))
            /\ r' = [r EXCEPT !.at = "done"]
            /\ UNCHANGED <<input, dstDir>>
  /\ UNCHANGED <<dryRun, srcDir, bpc, src, dst, need, have, needS, unwanted, haveS,
                 idx, cur, sendArgs, emit, consume, calls, p, passes, scan>>

NextOrder == OrderCreate \/ OrderBackup \/ OrderPrune

SpecOrder == InitOrder /\ [][NextOrder]_vars

\* the place of a handler in the order of app.run
Rank(op) == IF op = "create" THEN 1 ELSE IF op = "backup" THEN 2 ELSE 3

\* C29: the handlers called in one invocation are called in the order
\* create, backup, prune, each once at most; an invocation that has
\* returned an error calls no handler and changes nothing any more; until
\* prune is called no snapshot leaves the storage directory, so after an
\* error of create or backup none has been deleted.
C29_OrderAndAbort ==
  /\ [](r.pc = "order" =>
          /\ \A i, j \in DOMAIN r.log : i < j => Rank(r.log[i]) < Rank(r.log[j])
          /\ (\A i \in DOMAIN r.log : r.log[i] # "prune") =>
                r.before \subseteq findSnaps(dstDir))
  /\ [](r.pc = "order" /\ r.err # "none" => r.log[Len(r.log)] = r.err)
  /\ [][ (r.pc = "order" /\ r.err # "none") => (r' = r /\ dstDir' = dstDir) ]_vars

\* backup has failed after create, in an invocation asked to prune a
\* storage from which prune would have deleted a snapshot
C29_Witness ==
  /\ r.pc = "order" /\ r.err = "backup" /\ r.prune
  /\ r.log = <<"create", "backup">>
  /\ insert(newCascade(r.defs), findSnaps(dstDir)).out # <<>>

----------------------------------------------------------------------------
(* Specification SpecName: directory names as time.Parse reads them and as *)
(* Time.Format writes them, over consecutive backup runs.                  *)
(*                                                                         *)
(* Format and Parse above stand for names that snap has made itself, which *)
(* carry whole seconds.  time.Parse accepts more than Format writes: with  *)
(* the layout "2006-01-02_15:04:05" (line 27) it reads a fractional second *)
(* after the seconds field although the layout has none, and an hour of    *)
(* one digit.  A name here is the seconds it shows, the digits of a        *)
(* fractional second after them (none, or one digit), whether the hour is  *)
(* written with one digit, and the text after all that.                    *)

MaxNameSec == 2
MaxFracDigit == 1

FracDigits == 0..MaxFracDigit

\* a time.Time of sec seconds and a fraction of digit d, as a number that
\* keeps the order of times
instant(sec, d) == sec * (MaxFracDigit + 1) + d

Names ==
  [sec : 1..MaxNameSec, frac : {<<>>} \cup {<<d>> : d \in FracDigits},
   hour1 : BOOLEAN, tail : {"", "recv"}]

\* line 51: time.Parse(snapshotDateLayout, name) fails on text after the layout
ParseLayoutOK(name) == name.tail = ""

\* line 51: the time time.Parse returns; the fractional second is part of it
ParseLayout(name) ==
  instant(name.sec, IF name.frac = <<>> THEN 0 ELSE name.frac[1])

\* line 298: s.created.Format(snapshotDateLayout) writes whole seconds and
\* an hour of two digits
FormatLayout(t) ==
  [sec |-> t \div (MaxFracDigit + 1), frac |-> <<>>, hour1 |-> FALSE, tail |-> ""]

\* findSnaps, lines 39-66, over such names
findSnapsNamed(dir) ==
  {ParseLayout(e.name) : e \in {f \in dir : ParseLayoutOK(f.name) /\ f.sub}}

NameTiers == {<<[interval |-> 0, size |-> MaxCap]>>, <<[interval |-> 1, size |-> MaxCap]>>}

\* the source storage holds two snapshot directories at most
SrcNameSets == {{}} \cup {{a, b} : a \in Names, b \in Names}

InitName ==
  /\ c = Idle(<<>>) /\ input = {}
  /\ dryRun = FALSE
  /\ \E defs \in NameTiers : r = [pc |-> "name", defs |-> defs, run |-> 1]
  /\ \E S \in SrcNameSets : srcDir = {[name |-> n, sub |-> TRUE] : n \in S}
  /\ \E D \in SUBSET (1..MaxNameSec) :
       dstDir = {[name |-> FormatLayout(instant(sec, 0)), sub |-> TRUE] : sec \in D}
  /\ bpc = "scan"
  /\ src = {} /\ dst = {} /\ need = {} /\ have = {}
  /\ needS = <<>> /\ unwanted = {} /\ haveS = <<>> /\ idx = 1
  /\ cur = Nil /\ sendArgs = [refs |-> <<>>, parent |-> NoParent]
  /\ emit = "idle" /\ consume = "idle" /\ calls = <<>>
  /\ p = NoPipe /\ passes = <<>> /\ scan = [pc |-> "none"]

\* app.run lines 469-471 and app.backup lines 228-283 of one invocation
NamePlan ==
  /\ r.pc = "name" /\ bpc = "scan"
  /\ LET s   == findSnapsNamed(srcDir)
         d   == findSnapsNamed(dstDir)
         nd  == {t \in s : t \notin d}
         hv  == {t \in s : t \in d}
         sim == insert(newCascade(r.defs), wouldHave(d, SortAsc(nd)))
     IN /\ src' = s /\ dst' = d /\ need' = nd /\ have' = hv
        /\ needS' = SortAsc(nd) /\ haveS' = SortAsc(hv)
        /\ unwanted' = Range(sim.out)
        /\ input' = wouldHave(d, SortAsc(nd))
        /\ c' = [sim EXCEPT !.buckets = reset(@)]
  /\ idx' = 1 /\ bpc' = "loop"
  /\ UNCHANGED <<dryRun, srcDir, dstDir, cur, sendArgs, emit, consume, calls,
                 p, r, passes, scan>>

\* lines 286-288
NameSkip ==
  /\ r.pc = "name" /\ bpc = "loop" /\ idx <= Len(needS)
  /\ needS[idx] \in unwanted
  /\ idx' = idx + 1
  /\ UNCHANGED <<cascadeVars, dryRun, srcDir, dstDir, bpc, src, dst, need, have, needS,
                 unwanted, haveS, cur, sendArgs, emit, consume, calls, p, runVars>>

\* lines 289-292 with backupSingle, lines 297-378, when the transfer
\* succeeds: the staging directory is renamed to the name Format writes.
\* os.Rename fails when a directory of that name holds a snapshot.
NameSend ==
  /\ r.pc = "name" /\ bpc = "loop" /\ idx <= Len(needS)
  /\ needS[idx] \notin unwanted
  /\ LET t     == needS[idx]
         final == FormatLayout(t)
     IN IF [name |-> final, sub |-> TRUE] \in dstDir
          THEN /\ bpc' = "error"
               /\ UNCHANGED <<dstDir, calls, idx>>
          ELSE /\ dstDir' = (dstDir \ {[name |-> final, sub |-> FALSE]})
                               \cup {[name |-> final, sub |-> TRUE]}
               /\ calls' = Append(calls, [s |-> t, name |-> final])
               /\ idx' = idx + 1
               /\ bpc' = bpc
  /\ UNCHANGED <<cascadeVars, dryRun, srcDir, src, dst, need, have, needS,
                 unwanted, haveS, cur, sendArgs, emit, consume, p, runVars>>

\* lines 289-291 when the transfer fails
NameSendFail ==
  /\ r.pc = "name" /\ bpc = "loop" /\ idx <= Len(needS)
  /\ needS[idx] \notin unwanted
  /\ bpc' = "error"
  /\ UNCHANGED <<cascadeVars, dryRun, srcDir, dstDir, src, dst, need, have, needS,
                 unwanted, haveS, idx, cur, sendArgs, emit, consume, calls, p, runVars>>

\* line 294
NameReturn ==
  /\ r.pc = "name" /\ bpc = "loop" /\ idx > Len(needS)
  /\ bpc' = "done"
  /\ UNCHANGED <<cascadeVars, dryRun, srcDir, dstDir, src, dst, need, have, needS,
                 unwanted, haveS, idx, cur, sendArgs, emit, consume, calls, p, runVars>>

\* the next invocation of snap with --backup
NameNextRun ==
  /\ r.pc = "name" /\ bpc \in {"done", "error"}
  /\ r.run < MaxPasses
  /\ r' = [r EXCEPT !.run = @ + 1]
  /\ bpc' = "scan"
  /\ c' = Idle(<<>>) /\ input' = {}
  /\ src' = {} /\ dst' = {} /\ need' = {} /\ have' = {}
  /\ needS' = <<>> /\ unwanted' = {} /\ haveS' = <<>> /\ idx' = 1
  /\ UNCHANGED <<dryRun, srcDir, dstDir, cur, sendArgs, emit, consume, calls,
                 p, passes, scan>>

NextName == NamePlan \/ NameSkip \/ NameSend \/ NameSendFail \/ NameReturn \/ NameNextRun

SpecName == InitName /\ [][NextName]_vars

====
